---------------------------- MODULE Spec2Model ----------------------------
(***************************************************************************)
(* Model of the response-shape introspection and field-mapping engine of   *)
(* ApiIntegrationWizard.tsx: extractJsonPaths, extractValue and            *)
(* processResultsData, together with the JavaScript value semantics they   *)
(* rely on (truthiness, property access, String(), parseInt).              *)
(*                                                                         *)
(* Representation.                                                         *)
(*   - A JavaScript string is a sequence of one-character strings, so that *)
(*     replace/split/match/parseInt are computed character by character.   *)
(*   - A JavaScript value is a tagged record [k |-> kind, v |-> payload].  *)
(*     An object is an ordered sequence of <<key, value>> pairs (insertion *)
(*     order, keys distinct), an array is a sequence of values.            *)
(*   - A raised exception is the value Throw; operators propagate it the   *)
(*     way an uncaught exception unwinds.                                  *)
(*   - Property names of Object.prototype / Array.prototype ("toString",   *)
(*     "length", ...) cannot be spelled with the key alphabets used below. *)
(***************************************************************************)
EXTENDS Integers, Sequences, FiniteSets, TLC

VARIABLES data, mappingConfig, call, wizard

vars == <<data, mappingConfig, call, wizard>>

---------------------------------------------------------------------------
(* JavaScript values *)

Null == [k |-> "null"]
Undef == [k |-> "undefined"]
NaN == [k |-> "nan"]
Throw == [k |-> "throw"]
Bool(b) == [k |-> "bool", v |-> b]
Num(n) == [k |-> "num", v |-> n]
Str(s) == [k |-> "str", v |-> s]
Arr(es) == [k |-> "arr", v |-> es]
Obj(ps) == [k |-> "obj", v |-> ps]

IsArray(x) == x.k = "arr"
IsThrow(x) == x.k = "throw"
IsNullish(x) == x.k \in {"null", "undefined"}
\* typeof x === 'object' && x !== null
IsObjectLike(x) == x.k \in {"arr", "obj"}
\* typeof x === 'object' (null included)
TypeofObject(x) == x.k \in {"arr", "obj", "null"}

\* ToBoolean: the falsy values are null, undefined, false, 0, NaN and ""
Truthy(x) ==
  CASE x.k \in {"null", "undefined", "nan"} -> FALSE
    [] x.k = "bool" -> x.v
    [] x.k = "num" -> x.v # 0
    [] x.k = "str" -> x.v # <<>>
    [] OTHER -> TRUE

---------------------------------------------------------------------------
(* Characters *)

DigitChars == <<"0", "1", "2", "3", "4", "5", "6", "7", "8", "9">>
Digits == {DigitChars[i] : i \in 1..10}
DigitVal(c) == (CHOOSE i \in 1..10 : DigitChars[i] = c) - 1

HexChars == <<"a", "b", "c", "d", "e", "f">>
HexUpper == <<"A", "B", "C", "D", "E", "F">>
IsHexDigit(c) == c \in Digits \/ \E i \in 1..6 : c = HexChars[i] \/ c = HexUpper[i]
HexVal(c) ==
  IF c \in Digits THEN DigitVal(c)
  ELSE 9 + (CHOOSE i \in 1..6 : c = HexChars[i] \/ c = HexUpper[i])

Letters ==
  {"a", "b", "c", "d", "e", "f", "g", "h", "i", "j", "k", "l", "m",
   "n", "o", "p", "q", "r", "s", "t", "u", "v", "w", "x", "y", "z",
   "A", "B", "C", "D", "E", "F", "G", "H", "I", "J", "K", "L", "M",
   "N", "O", "P", "Q", "R", "S", "T", "U", "V", "W", "X", "Y", "Z"}
\* the regular-expression class \w
IsWordChar(c) == c \in Letters \/ c \in Digits \/ c = "_"
\* the white space parseInt skips (the part the path alphabets can spell)
IsWhiteSpace(c) == c \in {" ", "\t", "\n"}

IsDigit(c) == c \in Digits
AllDigits(s) == \A i \in 1..Len(s) : IsDigit(s[i])
AllWordChars(s) == \A i \in 1..Len(s) : IsWordChar(s[i])

---------------------------------------------------------------------------
(* Number <-> string conversions *)

RECURSIVE NatToStr(_)
NatToStr(n) ==
  IF n < 10 THEN <<DigitChars[n + 1]>>
  ELSE NatToStr(n \div 10) \o <<DigitChars[(n % 10) + 1]>>

\* Number.prototype.toString for the integers the model uses
IntToStr(n) == IF n < 0 THEN <<"-">> \o NatToStr(0 - n) ELSE NatToStr(n)

\* value of the longest prefix of s made of digits of the radix; -1 if empty
RECURSIVE DigitsPrefix(_, _, _, _)
DigitsPrefix(s, i, radix, acc) ==
  IF i > Len(s) THEN acc
  ELSE IF radix = 10 /\ s[i] \in Digits
  THEN DigitsPrefix(s, i + 1, radix,
                    (IF acc < 0 THEN 0 ELSE acc) * 10 + DigitVal(s[i]))
  ELSE IF radix = 16 /\ IsHexDigit(s[i])
  THEN DigitsPrefix(s, i + 1, radix,
                    (IF acc < 0 THEN 0 ELSE acc) * 16 + HexVal(s[i]))
  ELSE acc

RECURSIVE SkipWhiteSpace(_, _)
SkipWhiteSpace(s, i) ==
  IF i <= Len(s) /\ IsWhiteSpace(s[i]) THEN SkipWhiteSpace(s, i + 1) ELSE i

\* parseInt(s) with no radix argument: skip white space, optional sign,
\* optional 0x/0X prefix, longest digit prefix; NaN when there is none
parseInt(s) ==
  LET i0 == SkipWhiteSpace(s, 1)
      neg == i0 <= Len(s) /\ s[i0] = "-"
      i1 == IF i0 <= Len(s) /\ s[i0] \in {"-", "+"} THEN i0 + 1 ELSE i0
      hex == i1 + 1 <= Len(s) /\ s[i1] = "0" /\ s[i1 + 1] \in {"x", "X"}
      n == IF hex THEN DigitsPrefix(s, i1 + 2, 16, -1)
           ELSE DigitsPrefix(s, i1, 10, -1)
  IN IF n < 0 THEN NaN ELSE Num(IF neg THEN 0 - n ELSE n)

---------------------------------------------------------------------------
(* Property access *)

\* a canonical array index: "0", or digits without a leading zero
IsCanonicalIndex(key) ==
  /\ key # <<>>
  /\ AllDigits(key)
  /\ (Len(key) > 1 => key[1] # "0")

\* the property key a number converts to
NumKey(idx) == IF idx.k = "nan" THEN <<"N", "a", "N">> ELSE IntToStr(idx.v)

\* own property of an object (pairs in insertion order, keys distinct)
OwnProp(ps, key) ==
  IF \E i \in 1..Len(ps) : ps[i][1] = key
  THEN ps[CHOOSE i \in 1..Len(ps) : ps[i][1] = key][2]
  ELSE Undef

\* base[key] for a string key
GetProp(base, key) ==
  CASE IsNullish(base) -> Throw          \* TypeError
    [] base.k = "obj" -> OwnProp(base.v, key)
    [] base.k = "arr" ->
         IF IsCanonicalIndex(key) /\ DigitsPrefix(key, 1, 10, -1) < Len(base.v)
         THEN base.v[DigitsPrefix(key, 1, 10, -1) + 1]
         ELSE Undef
    [] base.k = "str" ->
         IF IsCanonicalIndex(key) /\ DigitsPrefix(key, 1, 10, -1) < Len(base.v)
         THEN Str(<<base.v[DigitsPrefix(key, 1, 10, -1) + 1]>>)
         ELSE Undef
    [] OTHER -> Undef

\* base[idx] for a number idx (NaN included)
GetIdx(base, idx) == GetProp(base, NumKey(idx))

---------------------------------------------------------------------------
(* String(x) *)

StrNull == <<"n", "u", "l", "l">>
StrUndefined == <<"u", "n", "d", "e", "f", "i", "n", "e", "d">>
StrTrue == <<"t", "r", "u", "e">>
StrFalse == <<"f", "a", "l", "s", "e">>
StrObject ==
  <<"[", "o", "b", "j", "e", "c", "t", " ", "O", "b", "j", "e", "c", "t", "]">>
StrUnknown == <<"u", "n", "k", "n", "o", "w", "n">>

\* String(x); an array joins the String() of its elements with ",", null and
\* undefined elements contributing the empty string
RECURSIVE ToStr(_)
RECURSIVE JoinFrom(_, _)
JoinFrom(es, i) ==
  IF i > Len(es) THEN <<>>
  ELSE (IF i > 1 THEN <<",">> ELSE <<>>)
       \o (IF IsNullish(es[i]) THEN <<>> ELSE ToStr(es[i]))
       \o JoinFrom(es, i + 1)
ToStr(x) ==
  CASE x.k = "null" -> StrNull
    [] x.k = "undefined" -> StrUndefined
    [] x.k = "nan" -> <<"N", "a", "N">>
    [] x.k = "bool" -> IF x.v THEN StrTrue ELSE StrFalse
    [] x.k = "num" -> IntToStr(x.v)
    [] x.k = "str" -> x.v
    [] x.k = "arr" -> JoinFrom(x.v, 1)
    [] OTHER -> StrObject

---------------------------------------------------------------------------
(* extractJsonPaths *)

RootPrefix == <<"$">>
WildcardSuffix == <<"[", "*", "]">>

RECURSIVE extractJsonPaths(_, _)
RECURSIVE KeyPathsFrom(_, _, _)
\* the forEach over Object.keys(obj), from the i-th key on
KeyPathsFrom(ps, i, prefix) ==
  IF i > Len(ps) THEN <<>>
  ELSE LET newPath == prefix \o <<".">> \o ps[i][1]
       IN <<newPath>> \o extractJsonPaths(ps[i][2], newPath)
          \o KeyPathsFrom(ps, i + 1, prefix)
\* extractJsonPaths descending into every element of a sequence
RECURSIVE ElemPathsFrom(_, _, _)
ElemPathsFrom(es, i, prefix) ==
  IF i > Len(es) THEN <<>>
  ELSE extractJsonPaths(es[i], prefix) \o ElemPathsFrom(es, i + 1, prefix)
extractJsonPaths_everyElement(obj, prefix) ==
  IF IsNullish(obj) THEN <<>>
  ELSE IF IsArray(obj)
  THEN <<prefix \o WildcardSuffix>>
       \o ElemPathsFrom(obj.v, 1, prefix \o WildcardSuffix)
  ELSE IF obj.k = "obj" THEN KeyPathsFrom(obj.v, 1, prefix)
  ELSE <<>>
extractJsonPaths(obj, prefix) ==
  IF IsNullish(obj) THEN <<>>
  ELSE IF IsArray(obj)
  THEN <<prefix \o WildcardSuffix>>
       \o (IF Len(obj.v) > 0
           THEN extractJsonPaths(obj.v[1], prefix \o WildcardSuffix)
           ELSE <<>>)
  ELSE IF obj.k = "obj" THEN KeyPathsFrom(obj.v, 1, prefix)
  ELSE <<>>

---------------------------------------------------------------------------
(* extractValue *)

\* path.replace(/^\$\.?/, '')
StripRoot(path) ==
  IF Len(path) >= 1 /\ path[1] = "$"
  THEN IF Len(path) >= 2 /\ path[2] = "."
       THEN SubSeq(path, 3, Len(path))
       ELSE SubSeq(path, 2, Len(path))
  ELSE path

\* s.split('.'): the pieces between the dots, empty pieces included
RECURSIVE SplitDot(_, _, _)
SplitDot(s, i, cur) ==
  IF i > Len(s) THEN <<cur>>
  ELSE IF s[i] = "." THEN <<cur>> \o SplitDot(s, i + 1, <<>>)
  ELSE SplitDot(s, i + 1, Append(cur, s[i]))

\* .filter(Boolean) on strings: drop the empty ones
NonEmpty(piece) == piece # <<>>
PathParts(path) == SelectSeq(SplitDot(StripRoot(path), 1, <<>>), NonEmpty)

\* part.match(/^(\w*)\[(\*|\d+)\]$/)
ArrayMatch(part) ==
  LET n == Len(part)
      opens == {i \in 1..n : part[i] = "["}
  IN IF opens = {} \/ part[n] # "]" THEN [ok |-> FALSE]
     ELSE LET i == CHOOSE j \in opens : \A h \in opens : j <= h
              key == SubSeq(part, 1, i - 1)
              indexStr == SubSeq(part, i + 1, n - 1)
          IN IF /\ AllWordChars(key)
                /\ \/ indexStr = <<"*">>
                   \/ (indexStr # <<>> /\ AllDigits(indexStr))
             THEN [ok |-> TRUE, key |-> key, indexStr |-> indexStr]
             ELSE [ok |-> FALSE]

\* Walk with the return of the [*] case left out: the wildcard is parsed as
\* an index like any other
RECURSIVE Walk_noWildcardReturn(_, _, _)
Walk_noWildcardReturn(parts, i, current) ==
  IF IsThrow(current) THEN Throw
  ELSE IF i > Len(parts) THEN current
  ELSE IF IsNullish(current) THEN Null
  ELSE LET part == parts[i]
           m == ArrayMatch(part)
       IN IF m.ok
          THEN LET c1 == IF m.key # <<>> /\ IsObjectLike(current)
                         THEN GetProp(current, m.key)
                         ELSE current
               IN IF IsArray(c1)
                  THEN Walk_noWildcardReturn(parts, i + 1,
                                             GetIdx(c1, parseInt(m.indexStr)))
                  ELSE Walk_noWildcardReturn(parts, i + 1, c1)
          ELSE IF IsObjectLike(current)
          THEN Walk_noWildcardReturn(parts, i + 1, GetProp(current, part))
          ELSE Walk_noWildcardReturn(parts, i + 1, current)

\* the for loop over parts, from the i-th part on, with the value in current
RECURSIVE Walk(_, _, _)
Walk(parts, i, current) ==
  IF IsThrow(current) THEN Throw
  ELSE IF i > Len(parts) THEN current
  ELSE IF IsNullish(current) THEN Null
  ELSE LET part == parts[i]
           m == ArrayMatch(part)
       IN IF m.ok
          THEN LET c1 == IF m.key # <<>> /\ IsObjectLike(current)
                         THEN GetProp(current, m.key)
                         ELSE current
               IN IF IsArray(c1)
                  THEN IF m.indexStr = <<"*">> THEN c1
                       ELSE Walk(parts, i + 1, GetIdx(c1, parseInt(m.indexStr)))
                  ELSE Walk(parts, i + 1, c1)
          ELSE IF IsObjectLike(current)
          THEN Walk(parts, i + 1, GetProp(current, part))
          ELSE Walk(parts, i + 1, current)

\* try { ... } catch { return null; }
Catch(r) == IF IsThrow(r) THEN Null ELSE r

\* extractValue without the !data guard and without the Array.isArray test
extractValue_unguarded(doc, path, format) ==
  IF format = "positional" THEN GetIdx(doc, parseInt(path))
  ELSE Walk(PathParts(path), 1, doc)

\* extractValue indexing whatever the document is
extractValue_anyIndexable(doc, path, format) ==
  IF ~Truthy(doc) THEN Null
  ELSE IF format = "positional" THEN GetIdx(doc, parseInt(path))
  ELSE Catch(Walk(PathParts(path), 1, doc))

extractValue(doc, path, format) ==
  IF ~Truthy(doc) THEN Null
  ELSE IF format = "positional"
  THEN LET index == parseInt(path)
       IN IF IsArray(doc) THEN GetIdx(doc, index) ELSE Null
  ELSE Catch(Walk(PathParts(path), 1, doc))

---------------------------------------------------------------------------
(* The entity directory and the field catalogs *)

FAKE_INTERNAL_ENTITY_MAP ==
  <<
     [key |-> <<"H", "N", "L", "M", "C">>,
      name |-> <<"W", "a", "i", "k", "i", "k", "i", " ", "B", "e", "a",
                 "c", "h", " ", "M", "a", "r", "r", "i", "o", "t", "t">>],
     [key |-> <<"R", "E", "N", "E", "W">>,
      name |-> <<"H", "o", "t", "e", "l", " ", "R", "e", "n", "e", "w">>],
     [key |-> <<"A", "B", "Q", "M", "C">>,
      name |-> <<"A", "l", "b", "u", "q", "u", "e", "r", "q", "u", "e",
                 " ", "M", "a", "r", "r", "i", "o", "t", "t">>],
     [key |-> <<"A", "T", "L", "B", "C">>,
      name |-> <<"A", "t", "l", "a", "n", "t", "a", " ", "M", "a", "r",
                 "r", "i", "o", "t", "t", " ", "B", "u", "c", "k", "h",
                 "e", "a", "d">>],
     [key |-> <<"B", "D", "R", "S", "F">>,
      name |-> <<"D", "o", "u", "b", "l", "e", "T", "r", "e", "e", " ",
                 "S", "t", "a", "m", "f", "o", "r", "d">>],
     [key |-> <<"B", "W", "G", "W", "T">>,
      name |-> <<"H", "o", "l", "i", "d", "a", "y", " ", "I", "n", "n",
                 " ", "B", "o", "w", "l", "i", "n", "g", " ", "G", "r",
                 "e", "e", "n">>],
     [key |-> <<"C", "A", "E", "G", "S">>,
      name |-> <<"E", "m", "b", "a", "s", "s", "y", " ", "S", "u", "i",
                 "t", "e", "s", " ", "C", "o", "l", "u", "m", "b", "i",
                 "a">>],
     [key |-> <<"C", "H", "S", "E", "M">>,
      name |-> <<"E", "m", "b", "a", "s", "s", "y", " ", "S", "u", "i",
                 "t", "e", "s", " ", "C", "h", "a", "r", "l", "e", "s",
                 "t", "o", "n">>],
     [key |-> <<"C", "I", "D", "M", "C">>,
      name |-> <<"C", "e", "d", "a", "r", " ", "R", "a", "p", "i", "d",
                 "s", " ", "M", "a", "r", "r", "i", "o", "t", "t">>],
     [key |-> <<"C", "L", "T", "B", "R">>,
      name |-> <<"C", "h", "a", "r", "l", "o", "t", "t", "e", " ", "A",
                 "i", "r", "p", "o", "r", "t", " ", "H", "i", "l", "t",
                 "o", "n">>],
     [key |-> <<"C", "R", "W", "E", "M">>,
      name |-> <<"E", "m", "b", "a", "s", "s", "y", " ", "S", "u", "i",
                 "t", "e", "s", " ", "C", "h", "a", "r", "l", "e", "s",
                 "t", "o", "n", " ", "W", "V">>],
     [key |-> <<"C", "V", "G", "E", "M">>,
      name |-> <<"H", "o", "l", "i", "d", "a", "y", " ", "I", "n", "n",
                 " ", "C", "i", "n", "c", "i", "n", "n", "a", "t", "i">>],
     [key |-> <<"D", "A", "L", "E", "M">>,
      name |-> <<"E", "m", "b", "a", "s", "s", "y", " ", "S", "u", "i",
                 "t", "e", "s", " ", "D", "F", "W">>],
     [key |-> <<"D", "A", "L", "H", "S">>,
      name |-> <<"H", "a", "m", "p", "t", "o", "n", " ", "S", "u", "i",
                 "t", "e", "s", " ", "M", "e", "s", "q", "u", "i", "t",
                 "e">>],
     [key |-> <<"D", "E", "N", "A", "U">>,
      name |-> <<"C", "r", "o", "w", "n", "e", " ", "P", "l", "a", "z",
                 "a", " ", "D", "e", "n", "v", "e", "r">>],
     [key |-> <<"D", "S", "M", "D", "N">>,
      name |-> <<"E", "m", "b", "a", "s", "s", "y", " ", "S", "u", "i",
                 "t", "e", "s", " ", "D", "e", "s", " ", "M", "o", "i",
                 "n", "e", "s">>],
     [key |-> <<"D", "S", "M", "S", "I">>,
      name |-> <<"S", "h", "e", "r", "a", "t", "o", "n", " ", "W", "e",
                 "s", "t", " ", "D", "e", "s", " ", "M", "o", "i", "n",
                 "e", "s">>],
     [key |-> <<"D", "T", "W", "W", "I">>,
      name |-> <<"W", "e", "s", "t", "i", "n", " ", "S", "o", "u", "t",
                 "h", "f", "i", "e", "l", "d">>],
     [key |-> <<"D", "V", "P", "T", "R">>,
      name |-> <<"R", "a", "d", "i", "s", "s", "o", "n", " ", "Q", "u",
                 "a", "d", " ", "C", "i", "t", "y">>],
     [key |-> <<"F", "L", "L", "M", "C">>,
      name |-> <<"M", "a", "r", "r", "i", "o", "t", "t", " ", "C", "o",
                 "r", "a", "l", " ", "S", "p", "r", "i", "n", "g", "s">>],
     [key |-> <<"F", "N", "L", "C", "O">>,
      name |-> <<"H", "i", "l", "t", "o", "n", " ", "F", "o", "r", "t",
                 " ", "C", "o", "l", "l", "i", "n", "s">>],
     [key |-> <<"F", "Y", "V", "S", "P">>,
      name |-> <<"H", "a", "m", "p", "t", "o", "n", " ", "I", "n", "n",
                 " ", "S", "p", "r", "i", "n", "g", "d", "a", "l", "e">>],
     [key |-> <<"G", "S", "O", "G", "B">>,
      name |-> <<"E", "m", "b", "a", "s", "s", "y", " ", "S", "u", "i",
                 "t", "e", "s", " ", "G", "r", "e", "e", "n", "s", "b",
                 "o", "r", "o">>],
     [key |-> <<"G", "S", "O", "H", "W">>,
      name |-> <<"H", "o", "m", "e", "w", "o", "o", "d", " ", "S", "u",
                 "i", "t", "e", "s", " ", "G", "r", "e", "e", "n", "s",
                 "b", "o", "r", "o">>],
     [key |-> <<"G", "S", "P", "E", "S">>,
      name |-> <<"E", "m", "b", "a", "s", "s", "y", " ", "S", "u", "i",
                 "t", "e", "s", " ", "G", "r", "e", "e", "n", "v", "i",
                 "l", "l", "e">>]
  >>

StrProperty == <<"P", "r", "o", "p", "e", "r", "t", "y", " ">>

\* the names every object literal inherits from Object.prototype
ObjectPrototypeNames ==
  {
     <<"c", "o", "n", "s", "t", "r", "u", "c", "t", "o", "r">>,
     <<"h", "a", "s", "O", "w", "n", "P", "r", "o", "p", "e", "r", "t",
       "y">>,
     <<"i", "s", "P", "r", "o", "t", "o", "t", "y", "p", "e", "O", "f">>,
     <<"p", "r", "o", "p", "e", "r", "t", "y", "I", "s", "E", "n", "u",
       "m", "e", "r", "a", "b", "l", "e">>,
     <<"t", "o", "L", "o", "c", "a", "l", "e", "S", "t", "r", "i", "n",
       "g">>,
     <<"t", "o", "S", "t", "r", "i", "n", "g">>,
     <<"v", "a", "l", "u", "e", "O", "f">>,
     <<"_", "_", "p", "r", "o", "t", "o", "_", "_">>,
     <<"_", "_", "d", "e", "f", "i", "n", "e", "G", "e", "t", "t", "e",
       "r", "_", "_">>,
     <<"_", "_", "d", "e", "f", "i", "n", "e", "S", "e", "t", "t", "e",
       "r", "_", "_">>,
     <<"_", "_", "l", "o", "o", "k", "u", "p", "G", "e", "t", "t", "e",
       "r", "_", "_">>,
     <<"_", "_", "l", "o", "o", "k", "u", "p", "S", "e", "t", "t", "e",
       "r", "_", "_">>
  }

\* Object.prototype[name]: a function, or for __proto__ the prototype object
\* itself; neither is a string and both are truthy
Inherited(name) == [k |-> "inherited", v |-> name]

\* FAKE_INTERNAL_ENTITY_MAP[keyStr] || `Property ${keyStr}`; the directory
\* is an object literal, so the lookup also finds what it inherits
getOrgNameFromKey(keyStr) ==
  LET hits == {i \in 1..Len(FAKE_INTERNAL_ENTITY_MAP) :
                 FAKE_INTERNAL_ENTITY_MAP[i].key = keyStr}
  IN IF hits # {}
     THEN Str(FAKE_INTERNAL_ENTITY_MAP[CHOOSE i \in hits : TRUE].name)
     ELSE IF keyStr \in ObjectPrototypeNames THEN Inherited(keyStr)
     ELSE Str(StrProperty \o keyStr)

ATTRIBUTE_FIELDS ==
  << [value |-> "region", label |-> "Region"],
     [value |-> "room_count", label |-> "Room Count"],
     [value |-> "brand", label |-> "Brand"],
     [value |-> "property_code", label |-> "Property Code"] >>

DATA_FIELDS == << [value |-> "occupancy", label |-> "Occupancy"] >>

\* fields.find(f => f.value === field)?.label
FindLabel(fields, field) ==
  LET hits == {i \in 1..Len(fields) : fields[i].value = field}
  IN IF hits = {} THEN [found |-> FALSE]
     ELSE [found |-> TRUE,
           label |-> fields[CHOOSE i \in hits : \A j \in hits : i <= j].label]

\* FieldKey with every field looked up among the attribute fields
FieldKey_attributesOnly(mapping) ==
  LET fieldLabel == FindLabel(ATTRIBUTE_FIELDS, mapping.internalField)
  IN IF fieldLabel.found /\ fieldLabel.label # ""
     THEN fieldLabel.label
     ELSE mapping.internalField

\* fieldLabel || mapping.internalField
FieldKey(mapping) ==
  LET fieldLabel == IF mapping.internalType = "attributes"
                    THEN FindLabel(ATTRIBUTE_FIELDS, mapping.internalField)
                    ELSE FindLabel(DATA_FIELDS, mapping.internalField)
  IN IF fieldLabel.found /\ fieldLabel.label # ""
     THEN fieldLabel.label
     ELSE mapping.internalField

---------------------------------------------------------------------------
(* processResultsData *)

\* mutant: an assignment to a key that is present is dropped
SetField_keepFirst(fields, key, value) ==
  IF \E i \in 1..Len(fields) : fields[i].key = key
  THEN fields
  ELSE Append(fields, [key |-> key, value |-> value])

\* obj[key] = value on a plain object: an existing key keeps its position
SetField(fields, key, value) ==
  IF \E i \in 1..Len(fields) : fields[i].key = key
  THEN [i \in 1..Len(fields) |->
          IF fields[i].key = key THEN [key |-> key, value |-> value]
          ELSE fields[i]]
  ELSE Append(fields, [key |-> key, value |-> value])

\* the for loop over mappingConfig.mappings, from the i-th mapping on;
\* Throw when an extractValue call raises
RECURSIVE MapFields(_, _, _, _, _)
MapFields(doc, mappings, format, i, acc) ==
  IF i > Len(mappings) THEN [k |-> "fields", v |-> acc]
  ELSE LET value == extractValue(doc, mappings[i].externalPath, format)
       IN IF IsThrow(value) THEN Throw
          ELSE MapFields(doc, mappings, format, i + 1,
                         SetField(acc, FieldKey(mappings[i]), value))

EnvelopeKeys ==
  << <<"d", "a", "t", "a">>,
     <<"i", "t", "e", "m", "s">>,
     <<"r", "e", "s", "u", "l", "t", "s">>,
     <<"r", "e", "c", "o", "r", "d", "s">>,
     <<"o", "r", "g", "a", "n", "i", "z", "a", "t", "i", "o", "n", "s">> >>

\* Records without the wrapping of a single flat record
Records_noWrap(doc, format) ==
  IF format = "positional"
  THEN IF IsArray(doc) THEN doc.v ELSE <<>>
  ELSE IF IsArray(doc) THEN doc.v
  ELSE LET hits == {i \in 1..Len(EnvelopeKeys) :
                      IsArray(GetProp(doc, EnvelopeKeys[i]))}
           found == IF hits = {} THEN <<>>
                    ELSE GetProp(doc,
                           EnvelopeKeys[CHOOSE i \in hits :
                                          \A j \in hits : i <= j]).v
       IN IF Len(found) = 0 /\ TypeofObject(doc) THEN <<doc>> ELSE found

\* the records array built before the rows are processed
Records(doc, format) ==
  IF format = "positional"
  THEN IF IsArray(doc)
       THEN IF IsArray(GetIdx(doc, Num(0))) THEN doc.v ELSE <<doc>>
       ELSE <<>>
  ELSE IF IsArray(doc) THEN doc.v
  ELSE LET hits == {i \in 1..Len(EnvelopeKeys) :
                      IsArray(GetProp(doc, EnvelopeKeys[i]))}
           found == IF hits = {} THEN <<>>
                    ELSE GetProp(doc,
                           EnvelopeKeys[CHOOSE i \in hits :
                                          \A j \in hits : i <= j]).v
       IN IF Len(found) = 0 /\ TypeofObject(doc) THEN <<doc>> ELSE found

\* the callback of records.map: one ProcessedRow, or Throw
ProcessRow(record, cfg) ==
  LET format == cfg.responseFormat
      raw == IF format = "positional"
             THEN GetIdx(record, cfg.keyIndex)
             ELSE extractValue(record, cfg.keyPath, format)
      entityKey == ToStr(IF Truthy(raw) THEN raw ELSE Str(StrUnknown))
      mappedFields == MapFields(record, cfg.mappings, format, 1, <<>>)
  IN IF IsThrow(raw) \/ IsThrow(mappedFields) THEN Throw
     ELSE [k |-> "row", entityKey |-> entityKey,
           orgName |-> getOrgNameFromKey(entityKey),
           mappedFields |-> mappedFields.v]

\* processResultsData with the rows in reverse order of the records
processResultsData_reversed(doc, cfg) ==
  IF ~Truthy(doc) THEN Null
  ELSE IF cfg.target = "portfolio"
  THEN LET result == MapFields(doc, cfg.mappings, cfg.responseFormat, 1, <<>>)
       IN IF IsThrow(result) THEN Throw
          ELSE [k |-> "result", v |-> result.v]
  ELSE LET records == Records(doc, cfg.responseFormat)
           processedRows == [i \in 1..Len(records) |->
                               ProcessRow(records[Len(records) + 1 - i], cfg)]
       IN IF \E i \in 1..Len(records) : IsThrow(processedRows[i])
          THEN Throw
          ELSE [k |-> "rows", v |-> processedRows]

\* processResultsData() for the document doc = resultsData || getParsedData():
\* null, a flat keyed result, the processed rows, or Throw
processResultsData(doc, cfg) ==
  IF ~Truthy(doc) THEN Null
  ELSE IF cfg.target = "portfolio"
  THEN LET result == MapFields(doc, cfg.mappings, cfg.responseFormat, 1, <<>>)
       IN IF IsThrow(result) THEN Throw
          ELSE [k |-> "result", v |-> result.v]
  ELSE LET records == Records(doc, cfg.responseFormat)
           processedRows == [i \in 1..Len(records) |->
                               ProcessRow(records[i], cfg)]
       IN IF \E i \in 1..Len(records) : IsThrow(processedRows[i])
          THEN Throw
          ELSE [k |-> "rows", v |-> processedRows]

---------------------------------------------------------------------------
(* Bounds and input sets *)

\* longest flat record / array of scalars
MaxLen == 2
\* most records in a record collection
MaxRecords == 2
\* most declared field mappings
MaxMappings == 2
\* longest address enumerated character by character
MaxRawLen == 2
\* most segments of an address built from segments
MaxSegs == 2

SeqsUpTo(S, n) == UNION {[1..m -> S] : m \in 0..n}
SeqToSet(q) == {q[i] : i \in 1..Len(q)}

KeyA == <<"a">>
KeyB == <<"b">>
KeyId == <<"i", "d">>
KeyOccupancy == <<"o", "c", "c", "u", "p", "a", "n", "c", "y">>
KeyData == EnvelopeKeys[1]
KeyItems == EnvelopeKeys[2]
KeyDotted == <<"a", ".", "b">>
KeyBracket == <<"a", "[", "0", "]">>
KeyEmpty == <<>>
StrRENEW == <<"R", "E", "N", "E", "W">>
StrHNLMC == <<"H", "N", "L", "M", "C">>

\* the documents of the examples
DocPositionalExample ==
  Arr(<< Arr(<<Num(1), Str(StrRENEW), Str(<<"H">>), Num(72)>>),
         Arr(<<Num(2), Str(StrHNLMC), Str(<<"R">>), Num(85)>>) >>)
DocEnvelopeExample ==
  Obj(<< <<KeyData, Arr(<< Obj(<< <<KeyId, Str(StrRENEW)>>,
                                  <<KeyOccupancy, Num(85)>> >>) >>)>> >>)
DocWildcardExample ==
  Obj(<< <<KeyA, Obj(<< <<KeyB, Arr(<<Num(1), Num(2), Num(3)>>)>> >>)>> >>)
DocFlatExample == Arr(<<Num(1), Num(2), Num(3)>>)
\* records keyed by a name every object inherits
StrConstructor ==
  <<"c", "o", "n", "s", "t", "r", "u", "c", "t", "o", "r">>
DocInheritedKey ==
  Arr(<< Arr(<<Num(1), Str(StrConstructor)>>),
         Arr(<<Num(2), Str(StrRENEW)>>) >>)

ScalarDocs ==
  {Null, Num(0), Num(72), Bool(FALSE), Bool(TRUE), Str(<<>>), Str(StrRENEW)}

\* values of the cells of a record
CellVals == {Null, Num(0), Num(72), Bool(FALSE), Str(<<>>), Str(StrRENEW)}

\* flat positional records, and the documents that are one such record
PosCells == {Null, Num(0), Num(72), Str(<<>>), Str(StrRENEW)}
PosRecords == {Arr(q) : q \in SeqsUpTo(PosCells, MaxLen)}

\* elements of a positional collection: records, and the values a weakly
\* typed payload may hold in their place
PosElems ==
  {Arr(<<>>), Arr(<<Num(0), Str(StrRENEW)>>), Arr(<<Num(72), Str(StrHNLMC)>>),
   Null, Str(StrRENEW),
   Obj(<< <<KeyId, Str(StrHNLMC)>> >>)}
PosCollections == {Arr(q) : q \in SeqsUpTo(PosElems, MaxRecords) \ {<<>>}}

\* keyed records
JsonRecords ==
  {Obj(<<>>)}
  \cup {Obj(<< <<KeyId, x>> >>) : x \in CellVals}
  \cup {Obj(<< <<KeyId, Str(StrRENEW)>>, <<KeyOccupancy, Num(85)>> >>),
        Obj(<< <<KeyOccupancy, Num(72)>>, <<KeyId, Str(StrHNLMC)>> >>),
        Obj(<< <<KeyA, Obj(<< <<KeyId, Num(72)>> >>)>> >>)}
JsonElems ==
  {Obj(<< <<KeyId, Str(StrRENEW)>>, <<KeyOccupancy, Num(85)>> >>),
   Obj(<< <<KeyOccupancy, Num(72)>>, <<KeyId, Str(StrHNLMC)>> >>),
   Null, Num(72)}
JsonCollections == {Arr(q) : q \in SeqsUpTo(JsonElems, MaxRecords)}

\* envelope documents: one or two of the keys data, items, a, in either
\* order, holding a sequence (empty or not) or something else
EnvKeys == {KeyData, KeyItems, KeyA}
EnvVals ==
  {Arr(<<>>),
   Arr(<< Obj(<< <<KeyId, Str(StrRENEW)>> >>) >>),
   Arr(<< Obj(<< <<KeyId, Str(StrHNLMC)>> >>), Obj(<< <<KeyId, Num(0)>> >>) >>),
   Num(72), Null}
EnvKeyPairs == {kk \in EnvKeys \X EnvKeys : kk[1] # kk[2]}
Envelopes ==
  {Obj(<< <<k1, v1>> >>) : k1 \in EnvKeys, v1 \in EnvVals}
  \cup {Obj(<< <<kk[1], v1>>, <<kk[2], v2>> >>) :
          kk \in EnvKeyPairs, v1 \in EnvVals, v2 \in EnvVals}

Docs ==
  ScalarDocs \cup PosRecords \cup PosCollections \cup JsonRecords
  \cup JsonCollections \cup Envelopes
  \cup {DocPositionalExample, DocEnvelopeExample, DocInheritedKey}

Targets == {"portfolio", "organizations"}
Formats == {"json", "positional"}

PathId == <<"$", ".", "i", "d">>
PathAId == <<"$", ".", "a", ".", "i", "d">>
PathOccupancy == <<"$", "."  >> \o KeyOccupancy
KeyPaths == {<<>>, PathId, PathAId}
KeyIndices == {Num(i) : i \in 0..MaxLen}

MappingChoices ==
  {[externalPath |-> <<"0">>, internalType |-> "attributes",
    internalField |-> "region"],
   [externalPath |-> <<"3">>, internalType |-> "attributes",
    internalField |-> "region"],
   [externalPath |-> PathOccupancy, internalType |-> "data",
    internalField |-> "occupancy"]}

\* mapping lists; the id of a mapping is its position when it was declared
WithIds(q) ==
  [i \in 1..Len(q) |->
     [id |-> i, externalPath |-> q[i].externalPath,
      internalType |-> q[i].internalType,
      internalField |-> q[i].internalField]]
MappingLists == {WithIds(q) : q \in SeqsUpTo(MappingChoices, MaxMappings)}

\* the mapping configuration the component is constructed with
DefaultConfig ==
  [target |-> "organizations", responseFormat |-> "positional",
   keyPath |-> <<>>, keyIndex |-> Num(1),
   mappings |-> WithIds(<<
     [externalPath |-> <<"3">>, internalType |-> "attributes",
      internalField |-> "region"],
     [externalPath |-> <<"1", "9">>, internalType |-> "data",
      internalField |-> "occupancy"] >>)]

\* configurations: the key locator of the format not in use stays at its
\* constructed value
Configs ==
  {[target |-> t, responseFormat |-> "positional", keyPath |-> <<>>,
    keyIndex |-> ki, mappings |-> ms] :
     t \in Targets, ki \in KeyIndices, ms \in MappingLists}
  \cup
  {[target |-> t, responseFormat |-> "json", keyPath |-> kp,
    keyIndex |-> Num(1), mappings |-> ms] :
     t \in Targets, kp \in KeyPaths, ms \in MappingLists}

---------------------------------------------------------------------------
(* State of the wizard at construction *)

\* the imported demo payload: a collection of flat records with the
\* property code at index 1
MOCK_PROPERTY_DATA == DocPositionalExample

\* the useState() initial values; apiResponse is the variable data and
\* mappingConfig has a variable of its own.  pending holds the calls of
\* handleTestAndSave that wait for their fetch, effectDue says that the
\* effect on useDemoData has yet to run, nextId stands for the identifiers
\* crypto.randomUUID() has yet to issue, and events counts the user events
\* and responses handled so far
WizardInit ==
  [currentStep |-> 1, useDemoData |-> TRUE, endpoint |-> <<>>,
   useManualJson |-> FALSE, manualJsonOverride |-> <<>>,
   resultsData |-> Null, resultsError |-> Null, isLoadingResults |-> FALSE,
   pending |-> <<>>, effectDue |-> TRUE, nextId |-> 3, events |-> 0]

---------------------------------------------------------------------------
(* Evaluation of a mapping configuration against a document *)

NoCall == [fn |-> "none"]

Init ==
  /\ data \in Docs
  /\ mappingConfig \in Configs
  /\ call = NoCall
  /\ wizard = WizardInit

\* a render of the results step calls processResultsData(); one evaluation
\* is followed per document and configuration
Render ==
  /\ call = NoCall
  /\ call' = [fn |-> "processResultsData",
              records |-> IF Truthy(data)
                             /\ mappingConfig.target = "organizations"
                          THEN Records(data, mappingConfig.responseFormat)
                          ELSE <<>>,
              ret |-> processResultsData(data, mappingConfig)]
  /\ UNCHANGED <<data, mappingConfig, wizard>>

Next == Render

Spec == Init /\ [][Next]_vars

---------------------------------------------------------------------------
(* Resolution of one address against a document *)

XLeaves == {Null, Num(0), Num(5), Str(<<"x">>)}
XCells == {Null, Num(5), Str(<<"x">>)}
XKeys == {KeyA, KeyB, KeyDotted, KeyBracket, KeyEmpty}
XArrays == {Arr(q) : q \in SeqsUpTo(XCells, MaxLen)}
XObjects ==
  {Obj(<< <<key, x>> >>) : key \in XKeys, x \in XCells}
  \cup {Obj(<< <<KeyA, x>>, <<KeyB, y>> >>) : x \in XCells, y \in XCells}
  \cup {Obj(<< <<KeyDotted, Num(5)>>,
               <<KeyA, Obj(<< <<KeyB, Num(0)>> >>)>> >>)}
XLevel1 == XArrays \cup XObjects
XLevel2 ==
  {Obj(<< <<key, x>> >>) : key \in {KeyA, KeyDotted}, x \in XLevel1}
  \cup {Arr(<<x>>) : x \in XLevel1}
XLevel3 ==
  {Obj(<< <<KeyA, Obj(<< <<KeyB, x>> >>)>> >>) : x \in XArrays}
  \cup {Arr(<< Obj(<< <<KeyA, x>> >>) >>) : x \in XArrays}
XVDocs ==
  XLeaves \cup XLevel1 \cup XLevel2 \cup XLevel3
  \cup {DocWildcardExample, DocFlatExample}

\* addresses enumerated character by character
RawAlphabet == {"$", ".", "[", "]", "*", "a", "0", "1", "5", "-", " "}
RawAddresses == SeqsUpTo(RawAlphabet, MaxRawLen)

\* addresses that exercise the number syntax parseInt accepts
NumericAddresses ==
  {<<"0">>, <<"-", "0">>, <<"-", "1">>, <<"+", "1">>, <<" ", "1">>,
   <<"0", "1">>, <<"1", "a">>, <<"0", "x", "1">>, <<"1", ".", "5">>,
   <<"1", "9">>, <<"x">>}

\* addresses built from segments: an optional root sentinel, then segments
\* joined by one dot or by two
Segs ==
  {KeyA, KeyB, KeyA \o WildcardSuffix, KeyB \o WildcardSuffix, WildcardSuffix,
   <<"[", "1", "]">>, <<"a", "[", "0", "]">>}
Sentinels == {<<>>, <<"$">>, <<"$", ".">>}
RECURSIVE Join(_, _)
Join(segs, sep) ==
  IF Len(segs) = 0 THEN <<>>
  ELSE IF Len(segs) = 1 THEN segs[1]
  ELSE segs[1] \o sep \o Join(Tail(segs), sep)
SegAddresses ==
  {sen \o Join(segs, sep) :
     sen \in Sentinels, sep \in {<<".">>, <<".", ".">>},
     segs \in SeqsUpTo(Segs, MaxSegs)}

\* the addresses the path catalog offers for a document, and each of them
\* continued by one more segment
CatalogAddresses(doc) ==
  LET cat == SeqToSet(extractJsonPaths(doc, RootPrefix))
  IN cat \cup {p \o <<".">> \o seg : p \in cat, seg \in Segs}

Addresses(doc) ==
  RawAddresses \cup NumericAddresses \cup SegAddresses
  \cup CatalogAddresses(doc)

InitXV ==
  /\ data \in XVDocs
  /\ mappingConfig = DefaultConfig
  /\ call = NoCall
  /\ wizard = WizardInit

\* one call extractValue(data, path, format) per document
Resolve ==
  /\ call = NoCall
  /\ \E path \in Addresses(data), format \in Formats :
    /\ call' = [fn |-> "extractValue", path |-> path, format |-> format,
                ret |-> extractValue(data, path, format)]
    /\ UNCHANGED <<data, mappingConfig, wizard>>

NextXV == Resolve

SpecXV == InitXV /\ [][NextXV]_vars

---------------------------------------------------------------------------
(* Properties of processResultsData, checked under Spec *)

Evaluated == call.fn = "processResultsData"
OrgRun(format) ==
  /\ Evaluated
  /\ mappingConfig.target = "organizations"
  /\ mappingConfig.responseFormat = format
  /\ Truthy(data)

\* the value at the key locator of a record
KeyValue(record) ==
  IF mappingConfig.responseFormat = "positional"
  THEN GetIdx(record, mappingConfig.keyIndex)
  ELSE extractValue(record, mappingConfig.keyPath, "json")

\* the value an output field mapping holds under a key; Undef when absent
FieldValue(fields, key) ==
  IF \E i \in 1..Len(fields) : fields[i].key = key
  THEN fields[CHOOSE i \in 1..Len(fields) : fields[i].key = key].value
  ELSE Undef

\* C1: processResultsData never raises, whatever the document, the target,
\* the format, the key locator and the mappings are.
C1_EvaluateNeverRaises == Evaluated => ~IsThrow(call.ret)

\* C4: in organizations mode the output has one row per record of the derived
\* record collection, in the same order, and row i holds the entity key and
\* the mapped values of record i.
C4_RowPerRecordInOrder ==
  (Evaluated /\ mappingConfig.target = "organizations"
     /\ call.ret.k = "rows") =>
    /\ Len(call.ret.v) = Len(call.records)
    /\ \A i \in 1..Len(call.records) :
         LET record == call.records[i]
             row == call.ret.v[i]
             ms == mappingConfig.mappings
         IN /\ row.entityKey =
                 ToStr(IF Truthy(KeyValue(record)) THEN KeyValue(record)
                       ELSE Str(StrUnknown))
            /\ \A j \in 1..Len(ms) :
                 (\A h \in (j + 1)..Len(ms) : FieldKey(ms[h]) # FieldKey(ms[j]))
                 => FieldValue(row.mappedFields, FieldKey(ms[j]))
                    = extractValue(record, ms[j].externalPath,
                                   mappingConfig.responseFormat)

\* two records with different keys and different mapped values come out as
\* two rows in the order of the records
C4_Witness ==
  /\ Evaluated
  /\ data = DocPositionalExample
  /\ call.ret.k = "rows"
  /\ Len(call.ret.v) = 2
  /\ call.ret.v[1].entityKey = StrRENEW
  /\ call.ret.v[2].entityKey = StrHNLMC
  /\ call.ret.v[1].mappedFields = <<[key |-> "Region", value |-> Num(72)]>>
  /\ call.ret.v[2].mappedFields = <<[key |-> "Region", value |-> Num(85)]>>

\* C5: in organizations mode with positional format the record collection is
\* the document when it is a sequence whose first element is a sequence, the
\* one-element collection of the document when it is any other sequence, and
\* empty when it is not a sequence; the rows returned are as many.
C5_PositionalCollection ==
  OrgRun("positional") =>
    LET expected ==
          IF IsArray(data) /\ Len(data.v) > 0 /\ IsArray(data.v[1]) THEN data.v
          ELSE IF IsArray(data) THEN <<data>>
          ELSE <<>>
    IN /\ call.records = expected
       /\ call.ret.k = "rows" => Len(call.ret.v) = Len(expected)

\* a flat sequence of scalars is wrapped into a collection of one record
C5_Witness ==
  /\ OrgRun("positional")
  /\ IsArray(data) /\ Len(data.v) = 2 /\ ~IsArray(data.v[1])
  /\ call.records = <<data>>
  /\ call.ret.k = "rows" /\ Len(call.ret.v) = 1

\* the envelope keys of the document that hold a sequence
EnvelopeHits == {i \in 1..Len(EnvelopeKeys) :
                   IsArray(OwnProp(data.v, EnvelopeKeys[i]))}
FirstEnvelopeHit == CHOOSE i \in EnvelopeHits : \A j \in EnvelopeHits : i <= j

\* C6: in organizations mode with json format and a non-sequence document,
\* the record collection is the value of the first of data, items, results,
\* records, organizations that holds a sequence.
C6_EnvelopeCollection ==
  (OrgRun("json") /\ data.k = "obj" /\ EnvelopeHits # {}) =>
    call.records = OwnProp(data.v, EnvelopeKeys[FirstEnvelopeHit]).v

\* C7: the document is its own one-element record collection only when no
\* envelope key holds a sequence and the document is a keyed mapping.
C7_FallbackOnlyWithoutEnvelope ==
  (OrgRun("json") /\ ~IsArray(data) /\ call.records = <<data>>) =>
    (data.k = "obj" /\ EnvelopeHits = {})

\* C8: the entity key of a row is "unknown" when the value at the key locator
\* is null or undefined, and the string form of that value otherwise.
C8_EntityKeyOfPresentValue ==
  (Evaluated /\ mappingConfig.target = "organizations"
     /\ call.ret.k = "rows") =>
    \A i \in 1..Len(call.records) :
      call.ret.v[i].entityKey =
        IF IsNullish(KeyValue(call.records[i])) THEN StrUnknown
        ELSE ToStr(KeyValue(call.records[i]))

---------------------------------------------------------------------------
(* Properties of extractValue, checked under SpecXV *)

Resolved(format) == call.fn = "extractValue" /\ call.format = format

\* C2: extractValue never raises: it returns a value, null or undefined for
\* every document, every address and both formats.
C2_ResolveNeverRaises == call.fn = "extractValue" => ~IsThrow(call.ret)

\* an address with an empty segment resolved against a keyed document
C2_Witness ==
  /\ Resolved("json")
  /\ call.path = <<"$", ".", "a", ".", ".", "b">>
  /\ data.k = "obj"
  /\ ~IsThrow(call.ret)

\* the keyed descents of a document: every path made of keys only, with the
\* value reached by indexing the document by each key in turn
RECURSIVE KeyedDescents(_, _)
KeyedDescents(obj, prefix) ==
  IF obj.k = "obj"
  THEN UNION {{[path |-> prefix \o <<".">> \o obj.v[i][1],
                value |-> obj.v[i][2]]}
              \cup KeyedDescents(obj.v[i][2], prefix \o <<".">> \o obj.v[i][1]) :
              i \in 1..Len(obj.v)}
  ELSE {}

\* C3: a catalogued path made of keyed descents only resolves to the value
\* reached by indexing the document by each key along it.
C3_CatalogRoundTrip ==
  Resolved("json") =>
    \A d \in KeyedDescents(data, RootPrefix) :
      (d.path = call.path
         /\ d.path \in SeqToSet(extractJsonPaths(data, RootPrefix)))
      => call.ret = d.value

IsWildcard(part) == ArrayMatch(part).ok /\ ArrayMatch(part).indexStr = <<"*">>

\* C9: at the first segment ending in [*], when the value found there (after
\* the descent into the segment's key, if it has one) is a sequence, that
\* sequence is the result, whatever segments follow.
C9_WildcardReturnsSequence ==
  (Resolved("json") /\ Truthy(data)) =>
    LET parts == PathParts(call.path)
    IN \A i \in 1..Len(parts) :
         (IsWildcard(parts[i]) /\ \A h \in 1..(i - 1) : ~IsWildcard(parts[h]))
         => LET before == Walk(SubSeq(parts, 1, i - 1), 1, data)
                key == ArrayMatch(parts[i]).key
                found == IF IsNullish(before) THEN before
                         ELSE IF key # <<>> /\ IsObjectLike(before)
                         THEN GetProp(before, key)
                         ELSE before
            IN IsArray(found) => call.ret = found

\* "$.a.b[*].a" against {a: {b: [1, 2, 3]}} gives [1, 2, 3]
C9_Witness ==
  /\ Resolved("json")
  /\ data = DocWildcardExample
  /\ call.path = <<"$", ".", "a", ".", "b", "[", "*", "]", ".", "a">>
  /\ call.ret = Arr(<<Num(1), Num(2), Num(3)>>)

\* C10: in positional format extractValue returns the element at the parsed
\* index when the document is a sequence and the index is in range, and null
\* or undefined otherwise.
C10_PositionalIndex ==
  Resolved("positional") =>
    LET index == parseInt(call.path)
    IN IF IsArray(data) /\ index.k = "num"
          /\ index.v >= 0 /\ index.v < Len(data.v)
       THEN call.ret = data.v[index.v + 1]
       ELSE IsNullish(call.ret)

\* "5" against [1, 2, 3] is out of range
C10_Witness ==
  /\ Resolved("positional")
  /\ data = DocFlatExample
  /\ call.path = <<"5">>
  /\ call.ret = Undef

---------------------------------------------------------------------------
(* JSON.stringify *)

\* the quoted form of a string: '"' and '\' are escaped
RECURSIVE QuoteFrom(_, _)
QuoteFrom(s, i) ==
  IF i > Len(s) THEN <<>>
  ELSE (IF s[i] \in {"\"", "\\"} THEN <<"\\", s[i]>> ELSE <<s[i]>>)
       \o QuoteFrom(s, i + 1)
Quote(s) == <<"\"">> \o QuoteFrom(s, 1) \o <<"\"">>

\* JSON.stringify(x) for the values typeof calls 'object' and what they
\* hold; an undefined or NaN element of an array is written null, a
\* property whose value is undefined is left out
RECURSIVE stringify(_)
RECURSIVE StringifyElems(_, _)
RECURSIVE StringifyProps(_, _, _)
StringifyElems(es, i) ==
  IF i > Len(es) THEN <<>>
  ELSE (IF i > 1 THEN <<",">> ELSE <<>>)
       \o (IF es[i].k = "undefined" THEN StrNull ELSE stringify(es[i]))
       \o StringifyElems(es, i + 1)
StringifyProps(ps, i, first) ==
  IF i > Len(ps) THEN <<>>
  ELSE IF ps[i][2].k = "undefined" THEN StringifyProps(ps, i + 1, first)
  ELSE (IF first THEN <<>> ELSE <<",">>)
       \o Quote(ps[i][1]) \o <<":">> \o stringify(ps[i][2])
       \o StringifyProps(ps, i + 1, FALSE)
stringify(x) ==
  CASE x.k \in {"null", "nan"} -> StrNull
    [] x.k = "bool" -> IF x.v THEN StrTrue ELSE StrFalse
    [] x.k = "num" -> IntToStr(x.v)
    [] x.k = "str" -> Quote(x.v)
    [] x.k = "arr" -> <<"[">> \o StringifyElems(x.v, 1) \o <<"]">>
    [] x.k = "obj" -> <<"{">> \o StringifyProps(x.v, 1, TRUE) \o <<"}">>
    [] OTHER -> StrUndefined

---------------------------------------------------------------------------
(* Helpers of the positional preview *)

getPositionalArrayLength(d) ==
  IF ~Truthy(d) THEN 0
  ELSE IF IsArray(d)
  THEN IF Len(d.v) = 0 THEN 0
       ELSE LET firstItem == d.v[1]
            IN IF IsArray(firstItem) THEN Len(firstItem.v)
               ELSE IF ~TypeofObject(firstItem) \/ firstItem.k = "null"
               THEN Len(d.v)
               ELSE 0
  ELSE 0

isLikelyPositionalFormat_nullIsMapping(d) ==
  IF ~IsArray(d) \/ Len(d.v) = 0 THEN FALSE
  ELSE LET firstItem == d.v[1]
       IN IF IsArray(firstItem) THEN TRUE
          ELSE IF ~TypeofObject(firstItem) THEN TRUE
          ELSE FALSE

isLikelyPositionalFormat(d) ==
  IF ~IsArray(d) \/ Len(d.v) = 0 THEN FALSE
  ELSE LET firstItem == d.v[1]
       IN IF IsArray(firstItem) THEN TRUE
          ELSE IF ~TypeofObject(firstItem) \/ firstItem.k = "null" THEN TRUE
          ELSE FALSE

\* (v) => (typeof v === 'object' ? JSON.stringify(v) : v)
SampleOf(v) == IF TypeofObject(v) THEN Str(stringify(v)) ELSE v

getPositionalSampleValues_firstOnly(d) ==
  IF ~IsArray(d) \/ Len(d.v) = 0 THEN <<>>
  ELSE LET firstItem == d.v[1]
       IN IF IsArray(firstItem)
          THEN [i \in 1..Len(firstItem.v) |-> SampleOf(firstItem.v[i])]
          ELSE IF ~TypeofObject(firstItem) \/ firstItem.k = "null"
          THEN <<SampleOf(firstItem)>>
          ELSE <<>>

getPositionalSampleValues(d) ==
  IF ~IsArray(d) \/ Len(d.v) = 0 THEN <<>>
  ELSE LET firstItem == d.v[1]
       IN IF IsArray(firstItem)
          THEN [i \in 1..Len(firstItem.v) |-> SampleOf(firstItem.v[i])]
          ELSE IF ~TypeofObject(firstItem) \/ firstItem.k = "null"
          THEN [i \in 1..Len(d.v) |-> SampleOf(d.v[i])]
          ELSE <<>>

---------------------------------------------------------------------------
(* The helpers applied to one document *)

\* what a sequence may hold side by side: scalars, keyed mappings, sequences
MixElems ==
  {Null, Num(0), Num(72), Bool(FALSE), Str(<<>>), Str(StrRENEW),
   Obj(<<>>), Obj(<< <<KeyId, Str(StrHNLMC)>> >>),
   Arr(<<>>), Arr(<<Num(1), Str(StrRENEW)>>),
   Arr(<< Obj(<< <<KeyA, Null>> >>) >>)}
MixedSequences == {Arr(q) : q \in SeqsUpTo(MixElems, MaxLen)}

HelperDocs ==
  ScalarDocs \cup {Undef} \cup MixedSequences \cup PosRecords
  \cup PosCollections \cup JsonRecords \cup JsonCollections \cup XVDocs
  \cup {DocPositionalExample, DocEnvelopeExample,
        Arr(<<Num(1), Str(StrRENEW), Str(<<"H", "o", "t", "e", "l">>),
              Num(72)>>)}

InitHelpers ==
  /\ data \in HelperDocs
  /\ mappingConfig = DefaultConfig
  /\ call = NoCall
  /\ wizard = WizardInit

\* one call of each helper per document
Measure ==
  /\ call = NoCall
  /\ call' = [fn |-> "getPositionalArrayLength",
              ret |-> getPositionalArrayLength(data)]
  /\ UNCHANGED <<data, mappingConfig, wizard>>

Detect ==
  /\ call = NoCall
  /\ call' = [fn |-> "isLikelyPositionalFormat",
              ret |-> isLikelyPositionalFormat(data)]
  /\ UNCHANGED <<data, mappingConfig, wizard>>

Sample ==
  /\ call = NoCall
  /\ call' = [fn |-> "getPositionalSampleValues",
              ret |-> getPositionalSampleValues(data)]
  /\ UNCHANGED <<data, mappingConfig, wizard>>

Catalog ==
  /\ call = NoCall
  /\ call' = [fn |-> "extractJsonPaths",
              ret |-> extractJsonPaths(data, RootPrefix)]
  /\ UNCHANGED <<data, mappingConfig, wizard>>

NextHelpers == Measure \/ Detect \/ Sample \/ Catalog

SpecHelpers == InitHelpers /\ [][NextHelpers]_vars

---------------------------------------------------------------------------
(* Properties of the helpers, checked under SpecHelpers *)

\* C11: for every document, getPositionalSampleValues returns as many
\* values as getPositionalArrayLength counts
C11_SamplesMatchLength ==
  call.fn = "getPositionalSampleValues"
    => Len(call.ret) = getPositionalArrayLength(data)

\* a sequence that starts with a scalar and also holds a keyed mapping has
\* been sampled: one value per item, the mapping written out as JSON text
C11_Witness ==
  /\ call.fn = "getPositionalSampleValues"
  /\ IsArray(data) /\ Len(data.v) = 2
  /\ data.v[1] = Num(72)
  /\ data.v[2] = Obj(<< <<KeyId, Str(StrHNLMC)>> >>)
  /\ call.ret = <<Num(72),
                  Str(<<"{", "\"", "i", "d", "\"", ":", "\"">> \o StrHNLMC
                      \o <<"\"", "}">>)>>

IsScalar(x) == x.k \notin {"arr", "obj"}

\* C16: getPositionalArrayLength returns the first element's length when
\* the first element is a sequence, the document's own length when the
\* document is a non-empty sequence of scalars only, and 0 for every other
\* document, sequences mixing scalars with keyed mappings included
C16_LengthByShape ==
  call.fn = "getPositionalArrayLength"
    => call.ret =
         (IF IsArray(data) /\ Len(data.v) > 0 /\ IsArray(data.v[1])
          THEN Len(data.v[1].v)
          ELSE IF /\ IsArray(data) /\ Len(data.v) > 0
                  /\ \A i \in 1..Len(data.v) : IsScalar(data.v[i])
          THEN Len(data.v)
          ELSE 0)

\* C17: isLikelyPositionalFormat is true exactly for the non-empty
\* sequences whose first element is a sequence or a scalar (null included),
\* that is, whose first element is not a keyed mapping
C17_LooksPositionalIff ==
  call.fn = "isLikelyPositionalFormat"
    => (call.ret <=> /\ IsArray(data) /\ Len(data.v) > 0
                     /\ data.v[1].k # "obj")

\* the flat record [1, "RENEW", "Hotel", 72] has been judged positional
C17_Witness ==
  /\ call.fn = "isLikelyPositionalFormat"
  /\ data = Arr(<<Num(1), Str(StrRENEW), Str(<<"H", "o", "t", "e", "l">>),
                  Num(72)>>)
  /\ call.ret = TRUE

\* the nodes of a document that get a path, each named by the child
\* positions leading to it: a keyed mapping has one child per key, a
\* sequence has the single child [*], under which element 0 hangs
RECURSIVE Positions(_)
Positions(d) ==
  CASE d.k = "obj" ->
         UNION {{<<i>>} \cup {<<i>> \o p : p \in Positions(d.v[i][2])} :
                  i \in 1..Len(d.v)}
    [] d.k = "arr" ->
         {<<1>>} \cup (IF Len(d.v) > 0
                       THEN {<<1>> \o p : p \in Positions(d.v[1])}
                       ELSE {})
    [] OTHER -> {}

\* the path of the node at a position
RECURSIVE PathAt(_, _, _)
PathAt(d, pos, P) ==
  IF pos = <<>> THEN P
  ELSE IF d.k = "obj"
  THEN PathAt(d.v[pos[1]][2], Tail(pos), P \o <<".">> \o d.v[pos[1]][1])
  ELSE PathAt(IF Len(d.v) > 0 THEN d.v[1] ELSE Undef, Tail(pos),
              P \o <<"[", "*", "]">>)

\* pre-order: a node comes before its subtree, and a subtree before the
\* subtrees of the later keys
RECURSIVE Before(_, _)
Before(p, q) ==
  IF p = <<>> THEN q # <<>>
  ELSE IF q = <<>> THEN FALSE
  ELSE IF p[1] # q[1] THEN p[1] < q[1]
  ELSE Before(Tail(p), Tail(q))

\* C18: extractJsonPaths is the pre-order enumeration rooted at "$": one
\* path P.<key> per key in key order followed by the key's subtree, P[*]
\* once per sequence followed by the paths of element 0 only, nothing for
\* scalars, null and undefined; elements at index 1 and above do not count
C18_PreOrderPaths ==
  call.fn = "extractJsonPaths"
    => LET ps == Positions(data)
       IN /\ Len(call.ret) = Cardinality(ps)
          /\ \A p \in ps :
               call.ret[1 + Cardinality({q \in ps : Before(q, p)})]
                 = PathAt(data, p, <<"$">>)
          /\ (IsArray(data) /\ Len(data.v) > 1)
               => call.ret = extractJsonPaths(Arr(<<data.v[1]>>), <<"$">>)

\* a sequence of two keyed records has been enumerated: [*], then the keys
\* of the first record only
C18_Witness ==
  /\ call.fn = "extractJsonPaths"
  /\ data = Arr(<< Obj(<< <<KeyId, Str(StrRENEW)>>,
                          <<KeyOccupancy, Num(85)>> >>),
                   Obj(<< <<KeyOccupancy, Num(72)>>,
                          <<KeyId, Str(StrHNLMC)>> >>) >>)
  /\ call.ret = << <<"$", "[", "*", "]">>,
                   <<"$", "[", "*", "]", ".", "i", "d">>,
                   <<"$", "[", "*", "]", ".">> \o KeyOccupancy >>

---------------------------------------------------------------------------
(* Further properties of processResultsData, checked under Spec *)

PortfolioRun == Evaluated /\ mappingConfig.target = "portfolio"

HasKey(fields, key) == \E j \in 1..Len(fields) : fields[j].key = key

\* C13: in portfolio mode the result is null when the document is null or
\* undefined, and for every other document it is one flat keyed mapping in
\* which the output label of each declared mapping holds
\* extractValue(document, externalPath, format)
C13_PortfolioFlatResult ==
  PortfolioRun
    => IF IsNullish(data) THEN call.ret = Null
       ELSE /\ call.ret.k = "result"
            /\ \A i \in 1..Len(mappingConfig.mappings) :
                 LET m == mappingConfig.mappings[i]
                 IN /\ HasKey(call.ret.v, FieldKey(m))
                    /\ FieldValue(call.ret.v, FieldKey(m))
                         = extractValue(data, m.externalPath,
                                        mappingConfig.responseFormat)

\* the field list of a type, and the key a mapping is to be output under
FieldsOfType(type) == IF type = "attributes" THEN ATTRIBUTE_FIELDS
                      ELSE DATA_FIELDS
ExpectedKey(m) ==
  LET fs == FieldsOfType(m.internalType)
      labels == {fs[i].label : i \in {j \in 1..Len(fs) :
                                         fs[j].value = m.internalField}}
  IN IF labels # {} THEN CHOOSE l \in labels : TRUE ELSE m.internalField

ExpectedKeys ==
  {ExpectedKey(mappingConfig.mappings[i]) :
     i \in 1..Len(mappingConfig.mappings)}
KeysOf(fields) == {fields[j].key : j \in 1..Len(fields)}

\* C14: the keys of an output field mapping (the portfolio result, or the
\* mappedFields of a row) are the labels of the declared mappings' fields,
\* each looked up in the field list of the mapping's own type, or the raw
\* field identifier when the list does not hold it; there is no other key
C14_KeysAreLabels ==
  Evaluated
    => /\ call.ret.k = "result" => KeysOf(call.ret.v) = ExpectedKeys
       /\ call.ret.k = "rows"
            => \A r \in 1..Len(call.ret.v) :
                 KeysOf(call.ret.v[r].mappedFields) = ExpectedKeys

\* a row has been built from an attribute mapping and a data mapping: its
\* keys are the two labels
C14_Witness ==
  /\ Evaluated
  /\ call.ret.k = "rows"
  /\ Len(call.ret.v) = 2
  /\ Len(mappingConfig.mappings) = 2
  /\ mappingConfig.mappings[1].internalType = "data"
  /\ mappingConfig.mappings[2].internalType = "attributes"
  /\ KeysOf(call.ret.v[2].mappedFields) = {"Occupancy", "Region"}

InDirectory(key) ==
  \E i \in 1..Len(FAKE_INTERNAL_ENTITY_MAP) :
    FAKE_INTERNAL_ENTITY_MAP[i].key = key
DirectoryName(key) ==
  FAKE_INTERNAL_ENTITY_MAP[CHOOSE i \in 1..Len(FAKE_INTERNAL_ENTITY_MAP) :
                             FAKE_INTERNAL_ENTITY_MAP[i].key = key].name

\* C15: the display name of a row is the directory's name for the row's
\* entity key when the directory has the key, and the text "Property "
\* followed by the key otherwise; the lookup gives a name for every key
C15_DisplayName ==
  (Evaluated /\ call.ret.k = "rows")
    => \A r \in 1..Len(call.ret.v) :
         LET row == call.ret.v[r]
         IN row.orgName =
              Str(IF InDirectory(row.entityKey)
                  THEN DirectoryName(row.entityKey)
                  ELSE <<"P", "r", "o", "p", "e", "r", "t", "y", " ">>
                       \o row.entityKey)

---------------------------------------------------------------------------
(* The wizard: user events and responses *)

\* most user events and responses followed in one behaviour
MaxEvents == 7

UrlExample == <<"h", "t", "t", "p", ":", "/", "/", "a">>

\* JSON bodies an endpoint answers with
ResponseDocs == {DocEnvelopeExample, DocFlatExample, Null, Num(0)}

\* JSON.parse(text) for the texts typed into the override box: the document
\* whose JSON text it is, or Throw (a SyntaxError)
ParseDocs == {DocEnvelopeExample, DocFlatExample, Null}
JSONParse(text) ==
  IF \E d \in ParseDocs : stringify(d) = text
  THEN CHOOSE d \in ParseDocs : stringify(d) = text
  ELSE Throw
ManualTexts ==
  {<<>>, <<" ">>, <<"{">>} \cup {stringify(d) : d \in ParseDocs}

\* text.trim() is the empty string
IsBlank(text) == \A i \in 1..Len(text) : IsWhiteSpace(text[i])

getParsedData ==
  IF wizard.useManualJson /\ wizard.manualJsonOverride # <<>>
  THEN LET parsed == JSONParse(wizard.manualJsonOverride)
       IN IF IsThrow(parsed) THEN Null ELSE parsed
  ELSE data

getAvailablePaths ==
  IF ~Truthy(getParsedData) THEN <<>>
  ELSE extractJsonPaths(getParsedData, RootPrefix)

\* Array.from({ length }, (_, i) => i)
getAvailableIndices ==
  [i \in 1..getPositionalArrayLength(getParsedData) |-> i - 1]

dataLooksPositional == isLikelyPositionalFormat(getParsedData)

\* the auto-detection hint is rendered
HintShown ==
  /\ Truthy(data) \/ wizard.manualJsonOverride # <<>>
  /\ dataLooksPositional
  /\ mappingConfig.responseFormat = "json"

\* an event is handled once the pending effect has run
Ready == ~wizard.effectDue /\ wizard.events < MaxEvents
OnStep(n) == Ready /\ wizard.currentStep = n
Handled(w) == [w EXCEPT !.events = @ + 1]

\* the mapping configuration is edited within the first MaxEdits events
MaxEdits == 5
Editing == OnStep(3) /\ wizard.events < MaxEdits

\* useEffect(..., [useDemoData]): runs after mount and after each change
LoadDemoData ==
  /\ wizard.effectDue
  /\ data' = IF wizard.useDemoData THEN MOCK_PROPERTY_DATA ELSE data
  /\ wizard' = [wizard EXCEPT !.effectDue = FALSE]
  /\ call' = [fn |-> "useEffect"]
  /\ UNCHANGED mappingConfig

\* the demo mode switch of step 1
ToggleDemoData ==
  /\ OnStep(1)
  /\ wizard' = [Handled(wizard) EXCEPT !.useDemoData = ~wizard.useDemoData,
                                       !.effectDue = TRUE]
  /\ call' = [fn |-> "setUseDemoData"]
  /\ UNCHANGED <<data, mappingConfig>>

\* updateConfig('endpoint', value) from the endpoint box of step 2
SetEndpoint ==
  /\ OnStep(2)
  /\ \E value \in {<<>>, UrlExample} :
       wizard' = [Handled(wizard) EXCEPT !.endpoint = value]
  /\ call' = [fn |-> "updateConfig"]
  /\ UNCHANGED <<data, mappingConfig>>

\* testEndpoint with its answer: a JSON body is kept as apiResponse and
\* clears useManualJson; any other outcome keeps the state
TestEndpoint ==
  /\ OnStep(2)
  /\ wizard.endpoint # <<>>
  /\ \/ \E body \in ResponseDocs :
          /\ data' = body
          /\ wizard' = [Handled(wizard) EXCEPT !.useManualJson = FALSE]
     \/ /\ data' = data
        /\ wizard' = Handled(wizard)
  /\ call' = [fn |-> "testEndpoint"]
  /\ UNCHANGED mappingConfig

\* the override checkbox and text box of step 3
SetUseManualJson ==
  /\ OnStep(3)
  /\ \E checked \in BOOLEAN :
       wizard' = [Handled(wizard) EXCEPT !.useManualJson = checked]
  /\ call' = [fn |-> "setUseManualJson"]
  /\ UNCHANGED <<data, mappingConfig>>

\* SetManualJsonOverride with the format following what the text looks like
SetManualJsonOverride_autoSwitch ==
  /\ OnStep(3)
  /\ wizard.useManualJson
  /\ \E text \in ManualTexts :
       /\ wizard' = [Handled(wizard) EXCEPT !.manualJsonOverride = text]
       /\ mappingConfig' =
            IF ~IsThrow(JSONParse(text))
               /\ isLikelyPositionalFormat(JSONParse(text))
            THEN [mappingConfig EXCEPT !.responseFormat = "positional"]
            ELSE mappingConfig
  /\ call' = [fn |-> "setManualJsonOverride"]
  /\ UNCHANGED data

SetManualJsonOverride ==
  /\ OnStep(3)
  /\ wizard.useManualJson
  /\ \E text \in ManualTexts :
       wizard' = [Handled(wizard) EXCEPT !.manualJsonOverride = text]
  /\ call' = [fn |-> "setManualJsonOverride"]
  /\ UNCHANGED <<data, mappingConfig>>

\* the two format buttons
SetResponseFormat ==
  /\ Editing
  /\ \E format \in Formats :
       mappingConfig' = [mappingConfig EXCEPT !.responseFormat = format]
  /\ wizard' = Handled(wizard)
  /\ call' = [fn |-> "setResponseFormat"]
  /\ UNCHANGED data

\* the two target buttons
SetTarget ==
  /\ Editing
  /\ \E target \in Targets :
       mappingConfig' = [mappingConfig EXCEPT !.target = target]
  /\ wizard' = Handled(wizard)
  /\ call' = [fn |-> "setTarget"]
  /\ UNCHANGED data

\* what a select of paths offers, or what is typed when there is no select
TypedPaths == {<<>>, PathId}
PathOptions ==
  IF Len(getAvailablePaths) > 0
  THEN {<<>>} \cup SeqToSet(getAvailablePaths)
  ELSE TypedPaths

\* the key path select or text box
SetKeyPath ==
  /\ Editing
  /\ mappingConfig.target = "organizations"
  /\ mappingConfig.responseFormat = "json"
  /\ \E value \in PathOptions :
       mappingConfig' = [mappingConfig EXCEPT !.keyPath = value]
  /\ wizard' = Handled(wizard)
  /\ call' = [fn |-> "setKeyPath"]
  /\ UNCHANGED data

\* the key index select (parseInt(value)) or number box
\* (parseInt(value) || 0)
TypedIndices == {<<>>, <<"0">>, <<"2">>}
SetKeyIndex ==
  /\ Editing
  /\ mappingConfig.target = "organizations"
  /\ mappingConfig.responseFormat = "positional"
  /\ IF Len(getAvailableIndices) > 0
     THEN \E i \in 1..Len(getAvailableIndices) :
            mappingConfig' =
              [mappingConfig EXCEPT
                 !.keyIndex = parseInt(NatToStr(getAvailableIndices[i]))]
     ELSE \E value \in TypedIndices :
            mappingConfig' =
              [mappingConfig EXCEPT
                 !.keyIndex = IF Truthy(parseInt(value)) THEN parseInt(value)
                              ELSE Num(0)]
  /\ wizard' = Handled(wizard)
  /\ call' = [fn |-> "setKeyIndex"]
  /\ UNCHANGED data

\* the mapping list after addMapping, with id the identifier issued
addMapping(mappings, id) ==
  Append(mappings,
         [id |-> id, externalPath |-> <<>>, internalType |-> "attributes",
          internalField |-> ATTRIBUTE_FIELDS[1].value])

\* updateMapping that keeps the field when the type changes
updateMapping_keepField(mappings, id, field, value) ==
  [i \in 1..Len(mappings) |->
     IF mappings[i].id # id THEN mappings[i]
     ELSE [mappings[i] EXCEPT ![field] = value]]

\* the mapping list after updateMapping(id, field, value)
updateMapping(mappings, id, field, value) ==
  [i \in 1..Len(mappings) |->
     LET m == mappings[i]
     IN IF m.id # id THEN m
        ELSE IF field = "internalType"
        THEN [m EXCEPT !.internalType = value,
                       !.internalField = IF value = "attributes"
                                         THEN ATTRIBUTE_FIELDS[1].value
                                         ELSE DATA_FIELDS[1].value]
        ELSE [m EXCEPT ![field] = value]]

\* mutant: removeMapping that drops the first mapping, whatever its id
removeMapping_first(mappings, id) == Tail(mappings)

\* the mapping list after removeMapping(id)
RECURSIVE removeMapping(_, _)
removeMapping(mappings, id) ==
  IF mappings = <<>> THEN <<>>
  ELSE (IF mappings[1].id # id THEN <<mappings[1]>> ELSE <<>>)
       \o removeMapping(Tail(mappings), id)

\* the values the controls of one mapping row offer for a field
IndexOptions ==
  IF Len(getAvailableIndices) > 0
  THEN {<<>>} \cup {NatToStr(getAvailableIndices[i]) :
                      i \in 1..Len(getAvailableIndices)}
  ELSE TypedIndices
FieldOptions(m) ==
  LET fields == IF m.internalType = "attributes" THEN ATTRIBUTE_FIELDS
                ELSE DATA_FIELDS
  IN {fields[i].value : i \in 1..Len(fields)}
RowOptions(m, field) ==
  CASE field = "externalPath" ->
         IF mappingConfig.responseFormat = "json" THEN PathOptions
         ELSE IndexOptions
    [] field = "internalType" -> {"attributes", "data"}
    [] field = "internalField" -> FieldOptions(m)

AddMapping ==
  /\ Editing
  /\ mappingConfig' =
       [mappingConfig EXCEPT !.mappings = addMapping(@, wizard.nextId)]
  /\ wizard' = [Handled(wizard) EXCEPT !.nextId = @ + 1]
  /\ call' = [fn |-> "addMapping", id |-> wizard.nextId]
  /\ UNCHANGED data

UpdateMapping ==
  /\ Editing
  /\ \E i \in 1..Len(mappingConfig.mappings) :
       \E field \in {"externalPath", "internalType", "internalField"} :
         \E value \in RowOptions(mappingConfig.mappings[i], field) :
           /\ mappingConfig' =
                [mappingConfig EXCEPT
                   !.mappings = updateMapping(@, mappingConfig.mappings[i].id,
                                              field, value)]
           /\ call' = IF field = "externalPath"
                      THEN [fn |-> "updateMapping",
                            id |-> mappingConfig.mappings[i].id,
                            field |-> field, path |-> value]
                      ELSE [fn |-> "updateMapping",
                            id |-> mappingConfig.mappings[i].id,
                            field |-> field, value |-> value]
  /\ wizard' = Handled(wizard)
  /\ UNCHANGED data

RemoveMapping ==
  /\ Editing
  /\ \E i \in 1..Len(mappingConfig.mappings) :
       /\ mappingConfig' =
            [mappingConfig EXCEPT
               !.mappings = removeMapping(@, mappingConfig.mappings[i].id)]
       /\ call' = [fn |-> "removeMapping",
                   id |-> mappingConfig.mappings[i].id]
  /\ wizard' = Handled(wizard)
  /\ UNCHANGED data

\* resultsError holds a notice; the model keeps which one
Notice(tag) == [k |-> "notice", v |-> tag]

\* the catch block of handleTestAndSave, with the apiResponse and the
\* override text its call has captured
Catch_handleTestAndSave(w, apiResponse, text) ==
  IF Truthy(apiResponse)
  THEN [w EXCEPT !.resultsData = apiResponse,
                 !.resultsError = Notice("cached, fetch failed")]
  ELSE IF text # <<>> /\ ~IsBlank(text)
  THEN IF IsThrow(JSONParse(text))
       THEN [w EXCEPT !.resultsError = Notice("failed to parse")]
       ELSE [w EXCEPT !.resultsData = JSONParse(text),
                      !.resultsError = Null]
  ELSE [w EXCEPT !.resultsError = Notice("failed to fetch")]

\* mutant: the loading flag is not cleared
Finally_handleTestAndSave_skipped(w) == w

\* the finally block
Finally_handleTestAndSave(w) == [w EXCEPT !.isLoadingResults = FALSE]

\* handleTestAndSave up to its end or to the await of its fetch
handleTestAndSave(w) ==
  LET w0 == [w EXCEPT !.isLoadingResults = TRUE, !.resultsError = Null,
                      !.resultsData = Null, !.currentStep = 4]
      text == w.manualJsonOverride
  IN IF w.useDemoData
     THEN Finally_handleTestAndSave(
            [w0 EXCEPT !.resultsData = MOCK_PROPERTY_DATA])
     ELSE IF w.useManualJson /\ text # <<>> /\ ~IsBlank(text)
     THEN IF IsThrow(JSONParse(text))
          THEN Finally_handleTestAndSave(
                 Catch_handleTestAndSave(w0, data, text))
          ELSE Finally_handleTestAndSave(
                 [w0 EXCEPT !.resultsData = JSONParse(text)])
     ELSE IF w.endpoint # <<>>
     THEN [w0 EXCEPT !.pending =
             Append(@, [apiResponse |-> data, manualJsonOverride |-> text])]
     ELSE IF Truthy(data)
     THEN Finally_handleTestAndSave(
            [w0 EXCEPT !.resultsData = data,
                       !.resultsError = Notice("cached")])
     ELSE Finally_handleTestAndSave(
            Catch_handleTestAndSave(w0, data, text))

\* the Next / Test and Save button
HandleNext ==
  /\ Ready
  /\ wizard.currentStep < 4
  /\ wizard' = IF wizard.currentStep < 3
               THEN [Handled(wizard) EXCEPT !.currentStep = @ + 1]
               ELSE handleTestAndSave(Handled(wizard))
  /\ call' = [fn |-> "handleNext"]
  /\ UNCHANGED <<data, mappingConfig>>

\* mutant: handlePrevious without its test of the step
HandlePrevious_unguarded ==
  /\ Ready
  /\ wizard' = [Handled(wizard) EXCEPT !.currentStep = @ - 1]
  /\ call' = [fn |-> "handlePrevious"]
  /\ UNCHANGED <<data, mappingConfig>>

\* the Previous / Edit Mappings button
HandlePrevious ==
  /\ Ready
  /\ wizard' = IF wizard.currentStep > 1
               THEN [Handled(wizard) EXCEPT !.currentStep = @ - 1]
               ELSE Handled(wizard)
  /\ call' = [fn |-> "handlePrevious"]
  /\ UNCHANGED <<data, mappingConfig>>

\* q without its i-th element
RemoveAt(q, i) == [j \in 1..(Len(q) - 1) |-> IF j < i THEN q[j] ELSE q[j + 1]]

\* the fetch of a waiting handleTestAndSave settles: a JSON body becomes
\* resultsData, anything else goes through the catch block
FetchSettles ==
  /\ wizard.pending # <<>>
  /\ ~wizard.effectDue
  /\ \E i \in 1..Len(wizard.pending) :
       LET w == [wizard EXCEPT !.pending = RemoveAt(@, i)]
           p == wizard.pending[i]
       IN \/ \E body \in ResponseDocs :
               /\ wizard' = Finally_handleTestAndSave(
                              [w EXCEPT !.resultsData = body])
               /\ call' = [fn |-> "handleTestAndSave", response |-> body,
                           captured |-> p]
          \/ /\ wizard' = Finally_handleTestAndSave(
                            Catch_handleTestAndSave(w, p.apiResponse,
                                                    p.manualJsonOverride))
             /\ call' = [fn |-> "handleTestAndSave", response |-> Throw,
                         captured |-> p]
  /\ UNCHANGED <<data, mappingConfig>>

InitWizard ==
  /\ data = Null
  /\ mappingConfig = DefaultConfig
  /\ call = NoCall
  /\ wizard = WizardInit

NextWizard ==
  \/ LoadDemoData \/ ToggleDemoData \/ SetEndpoint \/ TestEndpoint
  \/ SetUseManualJson \/ SetManualJsonOverride
  \/ SetResponseFormat \/ SetTarget \/ SetKeyPath \/ SetKeyIndex
  \/ AddMapping \/ UpdateMapping \/ RemoveMapping
  \/ HandleNext \/ HandlePrevious \/ FetchSettles

SpecWizard == InitWizard /\ [][NextWizard]_vars

\* The wizard with its scheduling: a fetch that was started settles (the
\* proviso of the loading property), and React runs a due effect after the
\* render that made it due
SpecWizardLive ==
  /\ InitWizard
  /\ [][NextWizard]_vars
  /\ WF_vars(FetchSettles)
  /\ WF_vars(LoadDemoData)

---------------------------------------------------------------------------
(* Properties of the wizard, checked under SpecWizard *)

FieldValues(type) ==
  LET fields == IF type = "attributes" THEN ATTRIBUTE_FIELDS ELSE DATA_FIELDS
  IN {fields[i].value : i \in 1..Len(fields)}
FirstField(type) ==
  IF type = "attributes" THEN ATTRIBUTE_FIELDS[1].value
  ELSE DATA_FIELDS[1].value

\* C12: whatever mappings have been added, updated and removed through the
\* controls, the internalField of every mapping is in the field list of its
\* internalType, and a mapping whose internalType has just been changed
\* holds the first field of the new type
C12_FieldBelongsToType ==
  /\ \A i \in 1..Len(mappingConfig.mappings) :
       mappingConfig.mappings[i].internalField
         \in FieldValues(mappingConfig.mappings[i].internalType)
  /\ (call.fn = "updateMapping" /\ call.field = "internalType")
       => \A i \in 1..Len(mappingConfig.mappings) :
            mappingConfig.mappings[i].id = call.id
              => /\ mappingConfig.mappings[i].internalType = call.value
                 /\ mappingConfig.mappings[i].internalField
                      = FirstField(call.value)

\* the first mapping, declared as the attribute region, has been changed
\* to the type data and holds the field occupancy
C12_Witness ==
  /\ call.fn = "updateMapping"
  /\ call.field = "internalType"
  /\ call.value = "data"
  /\ call.id = 1
  /\ Len(mappingConfig.mappings) >= 1
  /\ mappingConfig.mappings[1].id = 1
  /\ mappingConfig.mappings[1].internalType = "data"
  /\ mappingConfig.mappings[1].internalField = "occupancy"

\* C19: a step that changes mappingConfig.responseFormat is a press of one
\* of the two format buttons; loading data, testing the endpoint, editing
\* the override, changing the target, editing the mappings and Test and
\* Save leave it as it is, also while the data looks positional
C19_FormatOnlyByToggle ==
  [][mappingConfig'.responseFormat # mappingConfig.responseFormat
       => SetResponseFormat]_vars

\* the hint is on display (format json, data that looks positional) and a
\* mapping has just been added: the format is still json
C19_Witness ==
  /\ HintShown
  /\ call.fn = "addMapping"
  /\ mappingConfig.responseFormat = "json"

---------------------------------------------------------------------------
(* Further properties of extractValue, checked under SpecXV *)

IsPlain(part) == ~ArrayMatch(part).ok
AllPlain(parts) == \A i \in 1..Len(parts) : IsPlain(parts[i])

\* the walk over plain segments as stated: a keyed mapping is descended by
\* key, any other value is carried on unchanged, and a null or undefined
\* value met before a segment ends the walk with null
RECURSIVE PlainWalk(_, _, _)
PlainWalk(parts, i, current) ==
  IF i > Len(parts) THEN current
  ELSE IF IsNullish(current) THEN Null
  ELSE IF current.k = "obj"
  THEN PlainWalk(parts, i + 1, OwnProp(current.v, parts[i]))
  ELSE PlainWalk(parts, i + 1, current)

\* C21: in json format a plain segment descends by key only into a keyed
\* mapping; a scalar or a sequence is left as it is and the walk goes on
\* with it, so "$.a.b" against {a:5} yields 5
C21_PlainSegmentStalls ==
  (Resolved("json") /\ ~IsNullish(data) /\ AllPlain(PathParts(call.path)))
    => call.ret = PlainWalk(PathParts(call.path), 1, data)

\* the four spellings of a segment list agree with the result of the call,
\* which has resolved the spelling "$.a.b"
SpellingsAgree ==
  \A segs \in SeqsUpTo(Segs, MaxSegs) :
    call.path = <<"$", ".">> \o Join(segs, <<".">>)
      => /\ extractValue(data, <<"$">> \o Join(segs, <<".">>), "json")
              = call.ret
         /\ extractValue(data, Join(segs, <<".">>), "json") = call.ret
         /\ extractValue(data, <<"$", ".">> \o Join(segs, <<".", ".">>),
                         "json") = call.ret

\* C22: in json format the root sentinel is optional and empty segments are
\* ignored, so "$.a.b", "$a.b", "a.b" and "$.a..b" resolve alike for every
\* document and segment list, and "$" and "" resolve to the document itself
C22_SentinelOptional ==
  Resolved("json")
    => /\ (Len(call.path) >= 2 /\ call.path[1] = "$" /\ call.path[2] = ".")
            => SpellingsAgree
       /\ call.path \in {<<"$">>, <<>>} => call.ret = data

---------------------------------------------------------------------------
(* The results step, checked under SpecWizard *)

\* a step that starts handleTestAndSave: step 4 is entered from step 3
Started == wizard.currentStep = 3 /\ wizard'.currentStep = 4

\* a step in which a pending fetch of handleTestAndSave settles
Settled == Len(wizard'.pending) < Len(wizard.pending)

\* the override is enabled and its text is not blank
OverrideInUse == wizard.useManualJson /\ ~IsBlank(wizard.manualJsonOverride)

\* C23: handleTestAndSave takes the results document by strict priority: the
\* demo data whenever demo mode is on; else the parsed override when the
\* override is enabled and its text is not blank; else the JSON response of
\* the fetch when an endpoint is configured (the fetch is started, and the
\* document it answers with becomes the results document); else the cached
\* apiResponse of the step 2 test, whenever there is one.
C23_SourceByPriority ==
  [][/\ Started =>
          IF wizard.useDemoData
          THEN /\ wizard'.resultsData = MOCK_PROPERTY_DATA
               /\ wizard'.pending = wizard.pending
          ELSE IF OverrideInUse
          THEN ~IsThrow(JSONParse(wizard.manualJsonOverride)) =>
                 /\ wizard'.resultsData = JSONParse(wizard.manualJsonOverride)
                 /\ wizard'.pending = wizard.pending
          ELSE IF wizard.endpoint # <<>>
          THEN /\ Len(wizard'.pending) = Len(wizard.pending) + 1
               /\ wizard'.resultsData = Null
          ELSE data # Null => wizard'.resultsData = data
     /\ (Settled /\ ~IsThrow(call'.response)) =>
          wizard'.resultsData = call'.response]_vars

\* what the claim requires after the primary source has failed, with the
\* cached response and the override text the invocation holds
FallbackAsRequired(apiResponse, text) ==
  IF apiResponse # Null
  THEN /\ wizard'.resultsData = apiResponse
       /\ wizard'.resultsError # Null
  ELSE IF ~IsThrow(JSONParse(text))
  THEN /\ wizard'.resultsData = JSONParse(text)
       /\ wizard'.resultsError = Null
  ELSE /\ wizard'.resultsData = Null
       /\ wizard'.resultsError # Null

\* the override is in use and its text does not parse
OverrideUnparsable ==
  /\ ~wizard.useDemoData
  /\ OverrideInUse
  /\ IsThrow(JSONParse(wizard.manualJsonOverride))

\* no demo data, no override in use, no endpoint, no cached response
NothingConfigured ==
  /\ ~wizard.useDemoData
  /\ ~OverrideInUse
  /\ wizard.endpoint = <<>>
  /\ data = Null

\* C24: when the primary source of handleTestAndSave fails (the fetch
\* rejects or its answer is not JSON, the override does not parse, nothing
\* is configured): resultsData is the cached apiResponse with a notice if
\* there is one; else the parsed override text with no notice if the text
\* parses; else resultsData stays null and resultsError is set.
C24_FallbackOnFailure ==
  [][/\ (Started /\ (OverrideUnparsable \/ NothingConfigured)) =>
          FallbackAsRequired(data, wizard.manualJsonOverride)
     /\ (Settled /\ IsThrow(call'.response)) =>
          FallbackAsRequired(call'.captured.apiResponse,
                             call'.captured.manualJsonOverride)]_vars

---------------------------------------------------------------------------
(* The loading flag, checked under SpecWizardLive *)

\* C25: every invocation of handleTestAndSave ends with isLoadingResults
\* set to false, provided its fetch settles: an invocation that starts no
\* fetch (demo data, override, cached response, nothing configured) leaves
\* the flag false at once, the settling of a fetch (JSON, not JSON or
\* rejected) leaves it false, a flag that is true is eventually false, and
\* every fetch in flight settles.
C25_LoadingEnds ==
  /\ [][(Started /\ wizard'.pending = wizard.pending) =>
          ~wizard'.isLoadingResults]_vars
  /\ [][Settled => ~wizard'.isLoadingResults]_vars
  /\ wizard.isLoadingResults ~> ~wizard.isLoadingResults
  /\ (wizard.pending # <<>>) ~> (wizard.pending = <<>>)

\* a fetch has failed and the flag is false again
C25_Witness ==
  /\ call.fn = "handleTestAndSave"
  /\ IsThrow(call.response)
  /\ wizard.currentStep = 4
  /\ ~wizard.isLoadingResults

---------------------------------------------------------------------------
(* Invocations in flight, checked under SpecWizard *)

\* some invocation of handleTestAndSave has started and not yet finished:
\* its fetch has not settled
InFlight == wizard.pending # <<>>

\* C26: isLoadingResults is true in every state in which some invocation of
\* handleTestAndSave has started and not yet finished, also when a second
\* invocation is started (Edit Mappings, then Test and Save) while the fetch
\* of the first is pending.
C26_LoadingWhileInFlight == InFlight => wizard.isLoadingResults

\* C27: whenever an invocation of handleTestAndSave has finished (the
\* wizard is on the results step) and none is in flight, resultsData or
\* resultsError is not null, whatever the demo mode, the override text, the
\* answer of the endpoint and the cached response.
C27_ResultOrNotice ==
  (wizard.currentStep = 4 /\ ~InFlight) =>
    (wizard.resultsData # Null \/ wizard.resultsError # Null)

---------------------------------------------------------------------------
(* The steps of the wizard, checked under SpecWizard *)

\* C28: currentStep is one of 1, 2, 3, 4 in every reachable state;
\* handlePrevious at step 1 leaves it at 1; and step 4 is entered only from
\* step 3, by the handleNext that runs handleTestAndSave.
C28_StepsInRange ==
  /\ [](wizard.currentStep \in 1..4)
  /\ [][(call'.fn = "handlePrevious" /\ wizard.currentStep = 1) =>
          wizard'.currentStep = 1]_vars
  /\ [][(wizard'.currentStep = 4 /\ wizard.currentStep # 4) =>
          /\ wizard.currentStep = 3
          /\ call'.fn = "handleNext"
          /\ wizard' = handleTestAndSave(Handled(wizard))]_vars

\* handlePrevious was the first event, at step 1
C28_Witness ==
  /\ call.fn = "handlePrevious"
  /\ wizard.events = 1
  /\ wizard.currentStep = 1

---------------------------------------------------------------------------
(* Frame of the mapping handlers, checked under SpecWizard *)

\* target, responseFormat, keyPath and keyIndex are left alone
LocatorUnchanged ==
  /\ mappingConfig'.target = mappingConfig.target
  /\ mappingConfig'.responseFormat = mappingConfig.responseFormat
  /\ mappingConfig'.keyPath = mappingConfig.keyPath
  /\ mappingConfig'.keyIndex = mappingConfig.keyIndex

\* the mappings with another id than id, in their order
Others(mappings, id) == SelectSeq(mappings, LAMBDA m : m.id # id)

\* C29: updateMapping(id, ...) changes only the mapping with that id and
\* removeMapping(id) removes only that mapping; every other mapping is
\* unchanged and keeps its place among the others; addMapping appends one
\* mapping at the end; none of the three changes target, responseFormat,
\* keyPath or keyIndex.
C29_MappingFrame ==
  [][/\ call'.fn = "updateMapping" =>
          /\ Len(mappingConfig'.mappings) = Len(mappingConfig.mappings)
          /\ \A i \in 1..Len(mappingConfig.mappings) :
               /\ mappingConfig'.mappings[i].id = mappingConfig.mappings[i].id
               /\ mappingConfig.mappings[i].id # call'.id =>
                    mappingConfig'.mappings[i] = mappingConfig.mappings[i]
          /\ LocatorUnchanged
     /\ call'.fn = "removeMapping" =>
          /\ Len(mappingConfig'.mappings) = Len(mappingConfig.mappings) - 1
          /\ mappingConfig'.mappings = Others(mappingConfig.mappings, call'.id)
          /\ LocatorUnchanged
     /\ call'.fn = "addMapping" =>
          /\ Len(mappingConfig'.mappings) = Len(mappingConfig.mappings) + 1
          /\ SubSeq(mappingConfig'.mappings, 1, Len(mappingConfig.mappings))
               = mappingConfig.mappings
          /\ mappingConfig'.mappings[Len(mappingConfig'.mappings)].id
               = call'.id
          /\ LocatorUnchanged]_vars

\* the second of two mappings has been removed and the first is left
C29_Witness ==
  /\ call.fn = "removeMapping"
  /\ call.id = 2
  /\ Len(mappingConfig.mappings) = 1
  /\ mappingConfig.mappings[1].id = 1

---------------------------------------------------------------------------
(* Mappings with the same output label, checked under Spec *)

\* the last declared mapping whose output label is key
LastWith(key) ==
  LET hits == {i \in 1..Len(mappingConfig.mappings) :
                 ExpectedKey(mappingConfig.mappings[i]) = key}
  IN mappingConfig.mappings[CHOOSE i \in hits : \A j \in hits : j <= i]

\* fields holds one entry per distinct output label, with the value of the
\* last mapping of that label resolved against record
OneEntryPerLabel(fields, record) ==
  /\ Len(fields) = Cardinality(ExpectedKeys)
  /\ \A i, j \in 1..Len(fields) : fields[i].key = fields[j].key => i = j
  /\ \A i \in 1..Len(fields) :
       /\ fields[i].key \in ExpectedKeys
       /\ fields[i].value =
            extractValue(record, LastWith(fields[i].key).externalPath,
                         mappingConfig.responseFormat)

\* C30: when several declared mappings have the same output label, the
\* output field mapping (the portfolio result, or the mappedFields of a
\* row) holds one entry for that label, with the value of the last of them
\* in declaration order; the number of output fields is the number of
\* distinct labels, not the number of mappings.
C30_LastMappingWins ==
  Evaluated
    => /\ call.ret.k = "result" => OneEntryPerLabel(call.ret.v, data)
       /\ call.ret.k = "rows"
            => \A r \in 1..Len(call.ret.v) :
                 OneEntryPerLabel(call.ret.v[r].mappedFields, call.records[r])

\* two mappings with the label Region whose values differ: the result has
\* one field, with the value of the second
C30_Witness ==
  /\ Evaluated
  /\ call.ret.k = "result"
  /\ Len(mappingConfig.mappings) = 2
  /\ Cardinality(ExpectedKeys) = 1
  /\ extractValue(data, mappingConfig.mappings[1].externalPath,
                  mappingConfig.responseFormat)
       # extractValue(data, mappingConfig.mappings[2].externalPath,
                      mappingConfig.responseFormat)
  /\ Len(call.ret.v) = 1
  /\ call.ret.v[1].value =
       extractValue(data, mappingConfig.mappings[2].externalPath,
                    mappingConfig.responseFormat)

============================================================================
